---------------------------- MODULE Spec2Model ----------------------------
(***************************************************************************)
(* Delta housekeeping (discoverx/delta_housekeeping.py).                   *)
(*                                                                         *)
(* DeltaHousekeeping.scan fetches DESCRIBE DETAIL and DESCRIBE HISTORY of  *)
(* one table and folds them into a pandas frame; DeltaHousekeepingActions  *)
(* concatenates the frames of a batch and applies nine rules to them.      *)
(*                                                                         *)
(* A pandas frame is a record [columns, rows]: the set of its column names *)
(* and the sequence of its rows.  A row is a function from column names to *)
(* values; a null cell (None, NaN, NaT) is a column of the frame that is   *)
(* not in the domain of the row.  A string that the code builds by joining *)
(* is a sequence of its pieces (legends and separators), "" being << >>.   *)
(* Timestamps are integers in ticks, TicksPerDay ticks to the day.         *)
(***************************************************************************)
EXTENDS Integers, Sequences, FiniteSets, TLC

\* ------------------------------------------------------------------ bounds
MaxTs == 2
MaxEvents == 2
MaxNow == 3
MaxCalls == 2
TicksPerDay == 2

\* ------------------------------------------------------------ pandas frames
KEYS == {"catalog", "database", "tableName"}

Frame(columns, rows) == [columns |-> columns, rows |-> rows]

isnull(row, c) == c \notin DOMAIN row

notnull(row, c) == c \in DOMAIN row

\* The cells of a row under the given columns.
Project(row, columns) == [c \in (DOMAIN row) \cap columns |-> row[c]]

KeyOf(row) == Project(row, KEYS)

RECURSIVE Flatten(_)
Flatten(seqs) == IF seqs = << >> THEN << >> ELSE Head(seqs) \o Flatten(Tail(seqs))

\* Mutant of merge: how="inner", the rows without a partner are lost.
inner_merge(left, right) ==
    LET matches(l) == SelectSeq(right.rows, LAMBDA r : KeyOf(r) = KeyOf(l))
    IN  Frame(left.columns \cup right.columns,
              Flatten([i \in 1..Len(left.rows) |->
                          [j \in 1..Len(matches(left.rows[i])) |->
                              left.rows[i] @@ matches(left.rows[i])[j]]]))

\* pd.merge(left, right, how="outer", on=KEYS): every pair of rows with equal
\* keys, then the rows of either side without a partner.
merge(left, right) ==
    LET matches(l) == SelectSeq(right.rows, LAMBDA r : KeyOf(r) = KeyOf(l))
        joined(l) == IF matches(l) = << >>
                     THEN << l >>
                     ELSE [j \in 1..Len(matches(l)) |-> l @@ matches(l)[j]]
        onlyRight == SelectSeq(right.rows,
                        LAMBDA r : \A i \in 1..Len(left.rows) :
                                       KeyOf(left.rows[i]) # KeyOf(r))
    IN  Frame(left.columns \cup right.columns,
              Flatten([i \in 1..Len(left.rows) |-> joined(left.rows[i])]) \o onlyRight)

\* Mutant of concat: the frames after the first are left out.
concat_first(frames) == IF frames = << >> THEN Frame({}, << >>) ELSE Head(frames)

\* pd.concat(frames): the union of the columns, the rows one after the other.
RECURSIVE concat(_)
concat(frames) ==
    IF frames = << >>
    THEN Frame({}, << >>)
    ELSE LET rest == concat(Tail(frames))
         IN  Frame(Head(frames).columns \cup rest.columns, Head(frames).rows \o rest.rows)

\* frame.loc[:, columns].rename(columns=renamed)
SelectRename(frame, columns, renamed) ==
    LET name(c) == IF c \in DOMAIN renamed THEN renamed[c] ELSE c
        row(r) == [n \in {name(c) : c \in (DOMAIN r) \cap columns} |->
                       r[CHOOSE c \in (DOMAIN r) \cap columns : name(c) = n]]
    IN  Frame({name(c) : c \in columns}, [i \in 1..Len(frame.rows) |-> row(frame.rows[i])])

\* ------------------------------------------------- the storage collaborator
\* TableInfo of the tables a batch may hold.
TableNames == {"t1", "t2"}

TableInfo(t) == [catalog |-> "c", schema |-> "s", table |-> t]

\* The first table is answered with every response within the bounds, the
\* other tables with the extreme ones only: the largest detail, and no event,
\* one oldest event or MaxEvents OPTIMIZE events of the same time.
Wide(t) == t = "t1"

DetailErrors == {"table not found"}

HistoryErrors == {"history unavailable"}

\* The sizes of the responses: below, at and above the thresholds of Configs.
FileCounts == {1, 2}

ByteSizes == {1, 2, 3}

FileSizes == {1, 2}

\* DESCRIBE DETAIL: an error, or one row {name, numFiles, sizeInBytes}.
DetailResponses(t) ==
    [ok : {FALSE}, error : DetailErrors]
    \cup [ok : {TRUE},
          name : {<< TableInfo(t).catalog, TableInfo(t).schema, TableInfo(t).table >>},
          numFiles : IF Wide(t) THEN FileCounts ELSE {2},
          sizeInBytes : IF Wide(t) THEN ByteSizes ELSE {3}]

\* zOrderBy as DESCRIBE HISTORY prints it: "[]", or the list of the keys.
ZOrderBys == {<< >>, << "a" >>}

\* One event of DESCRIBE HISTORY: OPTIMIZE carries file-size metrics and
\* zOrderBy, the other operations carry none of them.
OptimizeEvents(t) ==
    [operation : {"OPTIMIZE"},
     timestamp : IF Wide(t) THEN 0..MaxTs ELSE {0},
     minFileSize : {1},
     p50FileSize : IF Wide(t) THEN FileSizes ELSE {1},
     maxFileSize : {2},
     zOrderBy : IF Wide(t) THEN ZOrderBys ELSE {<< >>}]

VacuumEvents(t) ==
    [operation : {"VACUUM END"}, timestamp : IF Wide(t) THEN 0..MaxTs ELSE {0}]

\* The WRITE that created the table, its oldest event.
WriteEvents == [operation : {"WRITE"}, timestamp : {0}]

Events(t) == OptimizeEvents(t) \cup VacuumEvents(t) \cup WriteEvents

\* The histories of at most n events, the newest first as DESCRIBE HISTORY
\* lists them.
Histories(S, n) ==
    UNION {{h \in [1..k -> S] : \A i \in 1..(k - 1) : h[i].timestamp >= h[i + 1].timestamp} :
              k \in 0..n}

\* DESCRIBE HISTORY: an error, or the sequence of the table's events.
HistoryResponses(t) ==
    [ok : {FALSE}, error : HistoryErrors]
    \cup [ok : {TRUE},
          events : IF Wide(t)
                   THEN Histories(Events(t), MaxEvents)
                   ELSE Histories(Events(t), 1) \cup [1..MaxEvents -> OptimizeEvents(t)]]

\* ------------------------------------------------------------ the scanner
DetailColumns == KEYS \cup {"number_of_files", "bytes"}

HistoryColumns ==
    KEYS \cup {"operation", "timestamp", "min_file_size", "p50_file_size",
               "max_file_size", "z_order_by"}

\* DeltaHousekeeping.get_describe_detail: the name split at the dots gives
\* the identity, numFiles and sizeInBytes are renamed.
get_describe_detail(response) ==
    Frame(DetailColumns,
          << [catalog |-> response.name[1],
              database |-> response.name[2],
              tableName |-> response.name[3],
              number_of_files |-> response.numFiles,
              bytes |-> response.sizeInBytes] >>)

\* The statement of get_describe_history_statement, run: the identity is
\* that of table_info, only OPTIMIZE and VACUUM END are selected.
HistoryRow(table_info, e) ==
    [catalog |-> table_info.catalog, database |-> table_info.schema,
     tableName |-> table_info.table, operation |-> e.operation,
     timestamp |-> e.timestamp]
    @@ (IF "p50FileSize" \in DOMAIN e
        THEN [min_file_size |-> e.minFileSize, p50_file_size |-> e.p50FileSize,
              max_file_size |-> e.maxFileSize, z_order_by |-> e.zOrderBy]
        ELSE << >>)

describe_history(table_info, events) ==
    LET selected == SelectSeq(events, LAMBDA e : e.operation \in {"OPTIMIZE", "VACUUM END"})
    IN  Frame(HistoryColumns,
              [i \in 1..Len(selected) |-> HistoryRow(table_info, selected[i])])

\* .filter(F.col("operation").isin(["OPTIMIZE", "VACUUM END"]))
operation_rows(describe_history_df) ==
    SelectSeq(describe_history_df.rows, LAMBDA r : r.operation \in {"OPTIMIZE", "VACUUM END"})

\* Mutant of row_number: F.dense_rank, which gives rows with equal timestamps
\* the same number.
dense_rank(rows) ==
    LET I == 1..Len(rows)
        above(i) == {rows[j].timestamp : j \in {j \in I :
                        /\ KeyOf(rows[j]) = KeyOf(rows[i])
                        /\ rows[j].operation = rows[i].operation
                        /\ rows[j].timestamp > rows[i].timestamp}}
    IN  {[i \in I |-> 1 + Cardinality(above(i))]}

\* Mutant of row_number: the order of the window is ascending.
row_number_ascending(rows) ==
    LET I == 1..Len(rows)
        part(i) == {j \in I : KeyOf(rows[j]) = KeyOf(rows[i])
                                /\ rows[j].operation = rows[i].operation}
    IN  {n \in [I -> I] :
            \A i \in I :
                /\ n[i] \in 1..Cardinality(part(i))
                /\ \A j \in part(i) \ {i} :
                       /\ n[j] # n[i]
                       /\ rows[j].timestamp < rows[i].timestamp => n[j] < n[i]}

\* F.row_number().over(partitionBy(identity, operation).orderBy(timestamp
\* desc)): the numberings Spark may give the rows; rows of one partition with
\* equal timestamps are numbered in either order.
row_number(rows) ==
    LET I == 1..Len(rows)
        part(i) == {j \in I : KeyOf(rows[j]) = KeyOf(rows[i])
                                /\ rows[j].operation = rows[i].operation}
    IN  {n \in [I -> I] :
            \A i \in I :
                /\ n[i] \in 1..Cardinality(part(i))
                /\ \A j \in part(i) \ {i} :
                       /\ n[j] # n[i]
                       /\ rows[j].timestamp > rows[i].timestamp => n[j] < n[i]}

\* DeltaHousekeeping._process_describe_history, with the numbering Spark gave
\* the filtered rows.
_process_describe_history(describe_detail_df, describe_history_df, numbering) ==
    LET filtered == operation_rows(describe_history_df)
        operation_order ==
            Frame(describe_history_df.columns \cup {"operation_order"},
                  [i \in 1..Len(filtered) |-> filtered[i] @@ [operation_order |-> numbering[i]]])
        pick(op, k) == Frame(operation_order.columns,
                             SelectSeq(operation_order.rows,
                                 LAMBDA r : r.operation = op /\ r.operation_order = k))
        stamp(op, k, as) == SelectRename(pick(op, k), KEYS \cup {"timestamp"},
                                         [timestamp |-> as])
        table_metrics_1 == SelectRename(pick("OPTIMIZE", 1),
                               KEYS \cup {"min_file_size", "p50_file_size",
                                          "max_file_size", "z_order_by"}, << >>)
    IN  IF "operation" \notin describe_history_df.columns
        THEN describe_detail_df
        ELSE IF operation_order.rows = << >>
        THEN describe_detail_df
        ELSE merge(merge(merge(merge(merge(describe_detail_df,
                 stamp("OPTIMIZE", 1, "max_optimize_timestamp")),
                 stamp("OPTIMIZE", 2, "2nd_optimize_timestamp")),
                 stamp("VACUUM END", 1, "max_vacuum_timestamp")),
                 stamp("VACUUM END", 2, "2nd_vacuum_timestamp")),
                 table_metrics_1)

\* Mutant of ErrorRecord: the message of the exception is not kept.
ErrorRecordWithoutMessage(table_info, message) ==
    Frame(KEYS \cup {"error"},
          << [catalog |-> table_info.catalog,
              database |-> table_info.schema,
              tableName |-> table_info.table,
              error |-> "error"] >>)

\* The except branch of scan: one row with the identity and str(e).
ErrorRecord(table_info, message) ==
    Frame(KEYS \cup {"error"},
          << [catalog |-> table_info.catalog,
              database |-> table_info.schema,
              tableName |-> table_info.table,
              error |-> message] >>)

\* ------------------------------------------------ the recommendation engine
\* The legends of DeltaHousekeepingActions.__init__.
tables_not_optimized_legend == "The table has not been OPTIMIZED and would benefit from it"

tables_not_vacuumed_legend == "The table has never been VACUUM'ed"

tables_not_optimized_last_days == "Tables that are not OPTIMIZED often enough"

tables_not_vacuumed_last_days == "Tables that are not VACUUM'ed often enough"

tables_optimized_too_freq == "Tables that are OPTIMIZED too often"

tables_vacuumed_too_freq == "Tables that are VACUUM'ed too often"

tables_do_not_need_optimize == "Tables that are too small to be OPTIMIZED"

tables_to_analyze == "Tables that need more analysis -small_files"

tables_zorder_not_effective == "Tables for which ZORDER is not being effective"

\* The thresholds given to __init__: sizes in the units of the detail and of
\* the metrics, days in days.
Configs ==
    {[min_table_size_optimize |-> 2,
      min_days_not_optimized |-> 0,
      min_days_not_vacuumed |-> 0,
      max_optimize_freq |-> 1,
      max_vacuum_freq |-> 1,
      small_file_threshold |-> 2,
      min_number_of_files_for_zorder |-> 2]}

\* The times datetime.now may give: no event of a history is later.
Clock == MaxTs..MaxNow

\* Timedelta.days: the whole days of a difference of timestamps, rounded down.
days(delta) == delta \div TicksPerDay

\* frame.fillna(values): the null cells of the columns named are filled.
fillna(frame, values) ==
    Frame(frame.columns,
          [i \in 1..Len(frame.rows) |->
              frame.rows[i]
              @@ [c \in ((DOMAIN values) \cap frame.columns) \ DOMAIN frame.rows[i] |->
                     values[c]]])

\* frame.drop(columns, axis=1)
drop(frame, columns) ==
    Frame(frame.columns \ columns,
          [i \in 1..Len(frame.rows) |-> Project(frame.rows[i], frame.columns \ columns)])

\* rows.loc[mask]: the rows at the positions of the mask, in their order.
RECURSIVE loc(_, _)
loc(rows, mask) ==
    IF rows = << >>
    THEN << >>
    ELSE loc(SubSeq(rows, 1, Len(rows) - 1), mask)
         \o (IF Len(rows) \in mask THEN << rows[Len(rows)] >> ELSE << >>)

\* stats_sub.loc[condition2, boolean_column_name] = True
\* stats_sub.loc[condition2, reason_column_name] = legend
set_legend(stats_sub, condition2, boolean_column_name, reason_column_name, legend) ==
    [i \in 1..Len(stats_sub) |->
        IF i \in condition2
        THEN (boolean_column_name :> TRUE) @@ (reason_column_name :> << legend >>)
             @@ stats_sub[i]
        ELSE stats_sub[i]]

\* Mutant of check_min_table_size_apply_legend: the comparison is turned.
check_min_table_size_turned(stats_sub, boolean_column_name, reason_column_name, kwargs) ==
    set_legend(stats_sub,
               {i \in 1..Len(stats_sub) : stats_sub[i].bytes < kwargs.min_table_size_optimize},
               boolean_column_name, reason_column_name, tables_not_optimized_legend)

\* check_min_table_size_apply_legend of _need_optimize
check_min_table_size_apply_legend(stats_sub, boolean_column_name, reason_column_name, kwargs) ==
    set_legend(stats_sub,
               {i \in 1..Len(stats_sub) : stats_sub[i].bytes > kwargs.min_table_size_optimize},
               boolean_column_name, reason_column_name, tables_not_optimized_legend)

\* Mutant of check_min_table_size_not_needed: the tables at the threshold and
\* below it are skipped, those above it flagged.
check_min_table_size_not_needed_turned(stats_sub, boolean_column_name, reason_column_name, kwargs) ==
    set_legend(stats_sub,
               {i \in 1..Len(stats_sub) :
                   /\ notnull(stats_sub[i], "max_optimize_timestamp")
                   /\ stats_sub[i].bytes > kwargs.min_table_size_optimize},
               boolean_column_name, reason_column_name, tables_do_not_need_optimize)

\* check_min_table_size_apply_legend of _optimize_not_needed
check_min_table_size_not_needed(stats_sub, boolean_column_name, reason_column_name, kwargs) ==
    set_legend(stats_sub,
               {i \in 1..Len(stats_sub) :
                   /\ notnull(stats_sub[i], "max_optimize_timestamp")
                   /\ stats_sub[i].bytes < kwargs.min_table_size_optimize},
               boolean_column_name, reason_column_name, tables_do_not_need_optimize)

\* Mutant of check_timestamps_apply_legend: a lag equal to the threshold fires
\* too.
check_timestamps_or_equal(stats_sub, boolean_column_name, reason_column_name, kwargs) ==
    LET lag(i) == days(kwargs.now - stats_sub[i][kwargs.timestamp_to_evaluate])
    IN  set_legend(stats_sub,
                   {i \in 1..Len(stats_sub) :
                       /\ notnull(stats_sub[i], kwargs.timestamp_to_evaluate)
                       /\ lag(i) >= kwargs.threshold},
                   boolean_column_name, reason_column_name, kwargs.reason)

\* check_timestamps_apply_legend: kwargs.now is what datetime.now gave.
check_timestamps_apply_legend(stats_sub, boolean_column_name, reason_column_name, kwargs) ==
    LET lag(i) == days(kwargs.now - stats_sub[i][kwargs.timestamp_to_evaluate])
    IN  set_legend(stats_sub,
                   {i \in 1..Len(stats_sub) :
                       /\ notnull(stats_sub[i], kwargs.timestamp_to_evaluate)
                       /\ lag(i) > kwargs.threshold},
                   boolean_column_name, reason_column_name, kwargs.reason)

\* Mutant of check_timestamp_diff_apply_legend: a lag equal to the threshold
\* fires too.
check_timestamp_diff_or_equal(stats_sub, boolean_column_name, reason_column_name, kwargs) ==
    LET lag(i) == days(stats_sub[i][kwargs.timestamp1_to_evaluate]
                       - stats_sub[i][kwargs.timestamp2_to_evaluate])
    IN  set_legend(stats_sub,
                   {i \in 1..Len(stats_sub) :
                       /\ notnull(stats_sub[i], kwargs.timestamp1_to_evaluate)
                       /\ notnull(stats_sub[i], kwargs.timestamp2_to_evaluate)
                       /\ lag(i) <= kwargs.threshold},
                   boolean_column_name, reason_column_name, kwargs.reason)

\* check_timestamp_diff_apply_legend
check_timestamp_diff_apply_legend(stats_sub, boolean_column_name, reason_column_name, kwargs) ==
    LET lag(i) == days(stats_sub[i][kwargs.timestamp1_to_evaluate]
                       - stats_sub[i][kwargs.timestamp2_to_evaluate])
    IN  set_legend(stats_sub,
                   {i \in 1..Len(stats_sub) :
                       /\ notnull(stats_sub[i], kwargs.timestamp1_to_evaluate)
                       /\ notnull(stats_sub[i], kwargs.timestamp2_to_evaluate)
                       /\ lag(i) < kwargs.threshold},
                   boolean_column_name, reason_column_name, kwargs.reason)

\* apply_legend of _never_vacuumed
apply_legend(stats_sub, boolean_column_name, reason_column_name, kwargs) ==
    set_legend(stats_sub, 1..Len(stats_sub), boolean_column_name, reason_column_name,
               tables_not_vacuumed_legend)

\* check_analyze_tables_apply_legend
check_analyze_tables_apply_legend(stats_sub, boolean_column_name, reason_column_name, kwargs) ==
    set_legend(stats_sub,
               {i \in 1..Len(stats_sub) :
                   stats_sub[i].p50_file_size < kwargs.small_file_threshold},
               boolean_column_name, reason_column_name, tables_to_analyze)

\* z_order_by_clean and z_order_by_array: null for "[]", else the brackets and
\* quotes are removed and the rest is split at the commas.
with_z_order_by_array(row) ==
    IF row.z_order_by = << >> THEN row ELSE row @@ [z_order_by_array |-> row.z_order_by]

\* check_zorder_not_effective_apply_legend: the rows are narrowed to those
\* with keys and few files, and all of them are flagged.
check_zorder_not_effective_apply_legend(stats_sub, boolean_column_name, reason_column_name, kwargs) ==
    LET arrays == [i \in 1..Len(stats_sub) |-> with_z_order_by_array(stats_sub[i])]
        with_keys == SelectSeq(arrays,
                         LAMBDA r : /\ notnull(r, "z_order_by_array")
                                    /\ Len(r.z_order_by_array) > 0)
        few_files == SelectSeq(with_keys,
                         LAMBDA r : r.number_of_files < kwargs.min_number_of_files_for_zorder)
    IN  set_legend(few_files, 1..Len(few_files), boolean_column_name, reason_column_name,
                   tables_zorder_not_effective)

\* The call f_apply_legend(stats_sub.copy(), ..., **kwargs) of the callable named.
call_apply_legend(f_apply_legend, stats_sub, boolean_column_name, reason_column_name, kwargs) ==
    CASE f_apply_legend = "need_optimize" ->
           check_min_table_size_apply_legend(stats_sub, boolean_column_name, reason_column_name, kwargs)
      [] f_apply_legend = "optimize_not_needed" ->
           check_min_table_size_not_needed(stats_sub, boolean_column_name, reason_column_name, kwargs)
      [] f_apply_legend = "check_timestamps" ->
           check_timestamps_apply_legend(stats_sub, boolean_column_name, reason_column_name, kwargs)
      [] f_apply_legend = "check_timestamp_diff" ->
           check_timestamp_diff_apply_legend(stats_sub, boolean_column_name, reason_column_name, kwargs)
      [] f_apply_legend = "never_vacuumed" ->
           apply_legend(stats_sub, boolean_column_name, reason_column_name, kwargs)
      [] f_apply_legend = "analyze_tables" ->
           check_analyze_tables_apply_legend(stats_sub, boolean_column_name, reason_column_name, kwargs)
      [] f_apply_legend = "zorder_not_effective" ->
           check_zorder_not_effective_apply_legend(stats_sub, boolean_column_name, reason_column_name, kwargs)

\* Mutant of join_reasons: the new reason replaces the one there was.
replace_reason(reason, reason_new) == reason_new

\* ' | '.join of the two reasons of a row
join_reasons(reason, reason_new) == reason \o << " | " >> \o reason_new

\* DeltaHousekeepingActions._apply_changes_to_stats: the new value of _stats.
\* condition is the set of the positions where the boolean series is True.
_apply_changes_to_stats(stats, condition, boolean_column_name, reason_column_name, f_apply_legend, kwargs) ==
    LET compose_results == boolean_column_name \in stats.columns
        boolean_column_name_new ==
            IF compose_results THEN boolean_column_name \o "_new" ELSE boolean_column_name
        reason_column_name_new ==
            IF compose_results THEN reason_column_name \o "_new" ELSE reason_column_name
        new_columns == {boolean_column_name_new, reason_column_name_new}
        copy == [i \in 1..Len(stats.rows) |->
                    (boolean_column_name_new :> FALSE)
                    @@ Project(stats.rows[i], stats.columns \ new_columns)]
        stats_sub == call_apply_legend(f_apply_legend, loc(copy, condition),
                         boolean_column_name_new, reason_column_name_new, kwargs)
        merged == merge(stats,
                        Frame(KEYS \cup new_columns,
                              [i \in 1..Len(stats_sub) |->
                                  Project(stats_sub[i], KEYS \cup new_columns)]))
        filled == fillna(merged, (boolean_column_name :> FALSE) @@ (reason_column_name :> << >>))
        filled_new == fillna(filled, (boolean_column_name_new :> FALSE)
                                     @@ (reason_column_name_new :> << >>))
        composed ==
            Frame(filled_new.columns,
                  [i \in 1..Len(filled_new.rows) |->
                      LET r == filled_new.rows[i]
                      IN  (boolean_column_name :>
                               (r[boolean_column_name] \/ r[boolean_column_name_new]))
                          @@ (reason_column_name :>
                               join_reasons(r[reason_column_name], r[reason_column_name_new]))
                          @@ r])
    IN  IF compose_results THEN drop(composed, new_columns) ELSE filled

\* How a method ended: with the new _stats, or with an exception and _stats
\* as it was.
Returned(stats) == [raised |-> FALSE, stats |-> stats]

Raised(stats) == [raised |-> TRUE, stats |-> stats]

\* self._stats.<column> raises for a column the frame does not have.
has_columns(stats, columns) == columns \subseteq stats.columns

Positions(stats) == 1..Len(stats.rows)

_need_optimize(stats, cfg) ==
    IF ~has_columns(stats, {"max_optimize_timestamp", "bytes"})
    THEN Raised(stats)
    ELSE Returned(_apply_changes_to_stats(stats,
             {i \in Positions(stats) : /\ isnull(stats.rows[i], "max_optimize_timestamp")
                                       /\ notnull(stats.rows[i], "bytes")},
             "rec_optimize", "rec_optimize_reason", "need_optimize", cfg))

_optimize_not_needed(stats, cfg) ==
    IF ~has_columns(stats, {"max_optimize_timestamp", "bytes"})
    THEN Raised(stats)
    ELSE Returned(_apply_changes_to_stats(stats,
             {i \in Positions(stats) : /\ notnull(stats.rows[i], "max_optimize_timestamp")
                                       /\ notnull(stats.rows[i], "bytes")},
             "rec_optimize", "rec_optimize_reason", "optimize_not_needed", cfg))

_not_optimized_last_days(stats, cfg, now) ==
    IF ~has_columns(stats, {"max_optimize_timestamp"})
    THEN Raised(stats)
    ELSE Returned(_apply_changes_to_stats(stats,
             {i \in Positions(stats) : ~isnull(stats.rows[i], "max_optimize_timestamp")},
             "rec_optimize", "rec_optimize_reason", "check_timestamps",
             [timestamp_to_evaluate |-> "max_optimize_timestamp",
              threshold |-> cfg.min_days_not_optimized,
              reason |-> tables_not_optimized_last_days,
              now |-> now]))

_optimized_too_frequently(stats, cfg) ==
    IF ~has_columns(stats, {"max_optimize_timestamp", "2nd_optimize_timestamp"})
    THEN Raised(stats)
    ELSE Returned(_apply_changes_to_stats(stats,
             {i \in Positions(stats) : /\ notnull(stats.rows[i], "max_optimize_timestamp")
                                       /\ notnull(stats.rows[i], "2nd_optimize_timestamp")},
             "rec_optimize", "rec_optimize_reason", "check_timestamp_diff",
             [timestamp1_to_evaluate |-> "max_optimize_timestamp",
              timestamp2_to_evaluate |-> "2nd_optimize_timestamp",
              threshold |-> cfg.max_optimize_freq,
              reason |-> tables_optimized_too_freq]))

_never_vacuumed(stats, cfg) ==
    IF ~has_columns(stats, {"max_vacuum_timestamp"})
    THEN Raised(stats)
    ELSE Returned(_apply_changes_to_stats(stats,
             {i \in Positions(stats) : isnull(stats.rows[i], "max_vacuum_timestamp")},
             "rec_vacuum", "rec_vacuum_reason", "never_vacuumed", cfg))

\* The frame the method builds after the rule is returned to no one.
_not_vacuumed_last_days(stats, cfg, now) ==
    IF ~has_columns(stats, {"max_vacuum_timestamp"})
    THEN Raised(stats)
    ELSE Returned(_apply_changes_to_stats(stats,
             {i \in Positions(stats) : ~isnull(stats.rows[i], "max_vacuum_timestamp")},
             "rec_vacuum", "rec_vacuum_reason", "check_timestamps",
             [timestamp_to_evaluate |-> "max_vacuum_timestamp",
              threshold |-> cfg.min_days_not_vacuumed,
              reason |-> tables_not_vacuumed_last_days,
              now |-> now]))

_vacuumed_too_frequently(stats, cfg) ==
    IF ~has_columns(stats, {"max_vacuum_timestamp", "2nd_vacuum_timestamp"})
    THEN Raised(stats)
    ELSE Returned(_apply_changes_to_stats(stats,
             {i \in Positions(stats) : /\ notnull(stats.rows[i], "max_vacuum_timestamp")
                                       /\ notnull(stats.rows[i], "2nd_vacuum_timestamp")},
             "rec_vacuum", "rec_vacuum_reason", "check_timestamp_diff",
             [timestamp1_to_evaluate |-> "max_vacuum_timestamp",
              timestamp2_to_evaluate |-> "2nd_vacuum_timestamp",
              threshold |-> cfg.max_vacuum_freq,
              reason |-> tables_vacuumed_too_freq]))

_analyze_these_tables(stats, cfg) ==
    IF ~has_columns(stats, {"max_optimize_timestamp", "p50_file_size", "number_of_files"})
    THEN Raised(stats)
    ELSE Returned(_apply_changes_to_stats(stats,
             {i \in Positions(stats) : /\ notnull(stats.rows[i], "max_optimize_timestamp")
                                       /\ notnull(stats.rows[i], "p50_file_size")
                                       /\ notnull(stats.rows[i], "number_of_files")
                                       /\ stats.rows[i].number_of_files > 1},
             "rec_misc", "rec_misc_reason", "analyze_tables", cfg))

\* x.replace of a null z_order_by and astype(int) of a null number_of_files
\* raise.
_zorder_not_effective(stats, cfg) ==
    LET condition == {i \in Positions(stats) :
                         /\ notnull(stats.rows[i], "max_optimize_timestamp")
                         /\ notnull(stats.rows[i], "p50_file_size")}
    IN  IF \/ ~has_columns(stats, {"max_optimize_timestamp", "p50_file_size",
                                   "z_order_by", "number_of_files"})
           \/ \E i \in condition : \/ isnull(stats.rows[i], "z_order_by")
                                    \/ isnull(stats.rows[i], "number_of_files")
        THEN Raised(stats)
        ELSE Returned(_apply_changes_to_stats(stats, condition,
                 "rec_misc", "rec_misc_reason", "zorder_not_effective", cfg))

\* series.str.contains(legend): no legend holds the separator or another
\* legend, so the legend is in the string when it is one of its pieces.
contains(reason, legend) == \E i \in 1..Len(reason) : reason[i] = legend

\* The legends _explain loops over, with the flag and the reason column of each.
ExplainedLegends ==
    << [legend |-> tables_not_optimized_legend, flag |-> "rec_optimize"],
       [legend |-> tables_not_optimized_last_days, flag |-> "rec_optimize"],
       [legend |-> tables_optimized_too_freq, flag |-> "rec_optimize"],
       [legend |-> tables_not_vacuumed_legend, flag |-> "rec_vacuum"],
       [legend |-> tables_not_vacuumed_last_days, flag |-> "rec_vacuum"],
       [legend |-> tables_vacuumed_too_freq, flag |-> "rec_vacuum"],
       [legend |-> tables_to_analyze, flag |-> "rec_misc"],
       [legend |-> tables_zorder_not_effective, flag |-> "rec_misc"] >>

\* DeltaHousekeepingActions._explain, after its generate_recommendations: one
\* {legend: rows} per legend of the three loops.
_explain(stats) ==
    [k \in 1..Len(ExplainedLegends) |->
        LET flag == ExplainedLegends[k].flag
            legend == ExplainedLegends[k].legend
        IN  [legend |-> legend,
             rows |-> SelectSeq(stats.rows,
                          LAMBDA r : r[flag] /\ contains(r[flag \o "_reason"], legend))]]

\* DeltaHousekeepingActions.generate_recommendations as one call on _stats:
\* the nine rules in their order, the first exception ending the call; now3
\* and now4 are what datetime.now gives the two rules that read it.
Then(result, k, cfg, now3, now4) ==
    IF result.raised
    THEN result
    ELSE CASE k = 1 -> _need_optimize(result.stats, cfg)
           [] k = 2 -> _never_vacuumed(result.stats, cfg)
           [] k = 3 -> _not_optimized_last_days(result.stats, cfg, now3)
           [] k = 4 -> _not_vacuumed_last_days(result.stats, cfg, now4)
           [] k = 5 -> _optimized_too_frequently(result.stats, cfg)
           [] k = 6 -> _vacuumed_too_frequently(result.stats, cfg)
           [] k = 7 -> _optimize_not_needed(result.stats, cfg)
           [] k = 8 -> _analyze_these_tables(result.stats, cfg)
           [] k = 9 -> _zorder_not_effective(result.stats, cfg)

RECURSIVE RulesTo(_, _, _, _, _)
RulesTo(k, stats, cfg, now3, now4) ==
    IF k = 0
    THEN Returned(stats)
    ELSE Then(RulesTo(k - 1, stats, cfg, now3, now4), k, cfg, now3, now4)

generate_recommendations(stats, cfg, now3, now4) == RulesTo(9, stats, cfg, now3, now4)

\* ------------------------------------------------------------------ state
VARIABLES
    tables,         \* the names of the tables of the batch
    scan_pc,        \* per table: "start", "detail" (dd fetched), "history"
                    \* (the statement was run) or "done"
    dd,             \* per table: the frame of get_describe_detail, in scan
    dh,             \* per table: the frame of the history statement, in scan
    history_calls,  \* per table: how many DESCRIBE HISTORY statements were run
    caught,         \* per table: the exceptions scan caught, as [at, message]
    mapped_pd_dfs,  \* per table: the frame scan returned
    engine,         \* whether DeltaHousekeepingActions is constructed
    cfg,            \* its thresholds
    stats,          \* its _stats
    pc,             \* the rule generate_recommendations applies next, 0 at rest
    calls,          \* how many times generate_recommendations was called
    outcome,        \* how its last call ended: "none", "returned", "raised"
    out             \* the list the last _explain returned

scan_vars == << tables, scan_pc, dd, dh, history_calls, caught, mapped_pd_dfs >>

engine_vars == << engine, cfg, stats, pc, calls, outcome, out >>

vars == << scan_vars, engine_vars >>

NoFrame == Frame({}, << >>)

Init ==
    /\ tables \in (SUBSET TableNames) \ {{}}
    /\ scan_pc = [t \in TableNames |-> "start"]
    /\ dd = [t \in TableNames |-> NoFrame]
    /\ dh = [t \in TableNames |-> NoFrame]
    /\ history_calls = [t \in TableNames |-> 0]
    /\ caught = [t \in TableNames |-> << >>]
    /\ mapped_pd_dfs = [t \in TableNames |-> NoFrame]
    /\ engine = FALSE
    /\ cfg \in Configs
    /\ stats = NoFrame
    /\ pc = 0
    /\ calls = 0
    /\ outcome = "none"
    /\ out = << >>

\* scan, to the end of get_describe_detail: the exception of a failed
\* DESCRIBE DETAIL is caught and the error record returned.
ScanDetail(t) ==
    /\ t \in tables
    /\ scan_pc[t] = "start"
    /\ \E response \in DetailResponses(t) :
          IF response.ok
          THEN /\ dd' = [dd EXCEPT ![t] = get_describe_detail(response)]
               /\ scan_pc' = [scan_pc EXCEPT ![t] = "detail"]
               /\ UNCHANGED << caught, mapped_pd_dfs >>
          ELSE /\ caught' = [caught EXCEPT
                                ![t] = Append(@, [at |-> "detail", message |-> response.error])]
               /\ mapped_pd_dfs' = [mapped_pd_dfs EXCEPT
                                       ![t] = ErrorRecord(TableInfo(t), response.error)]
               /\ scan_pc' = [scan_pc EXCEPT ![t] = "done"]
               /\ UNCHANGED dd
    /\ UNCHANGED << tables, dh, history_calls, engine_vars >>

\* scan, from the DESCRIBE HISTORY statement to its return, in one step: the
\* fold of _process_describe_history, or the error record of the exception.
ScanHistory(t) ==
    /\ t \in tables
    /\ scan_pc[t] = "detail"
    /\ history_calls' = [history_calls EXCEPT ![t] = @ + 1]
    /\ \E response \in HistoryResponses(t) :
          IF response.ok
          THEN LET describe_history_df == describe_history(TableInfo(t), response.events)
               IN  /\ \E numbering \in row_number(operation_rows(describe_history_df)) :
                          mapped_pd_dfs' = [mapped_pd_dfs EXCEPT
                              ![t] = _process_describe_history(dd[t], describe_history_df,
                                                               numbering)]
                   /\ UNCHANGED caught
          ELSE /\ caught' = [caught EXCEPT
                                ![t] = Append(@, [at |-> "history", message |-> response.error])]
               /\ mapped_pd_dfs' = [mapped_pd_dfs EXCEPT
                                       ![t] = ErrorRecord(TableInfo(t), response.error)]
    /\ scan_pc' = [scan_pc EXCEPT ![t] = "done"]
    /\ dd' = [dd EXCEPT ![t] = NoFrame]
    /\ UNCHANGED << tables, dh, engine_vars >>

\* The same part of scan in two steps. First the statement of
\* get_describe_history_statement is run: its frame, or the error record of
\* the exception.
ScanStatement(t) ==
    /\ t \in tables
    /\ scan_pc[t] = "detail"
    /\ history_calls' = [history_calls EXCEPT ![t] = @ + 1]
    /\ \E response \in HistoryResponses(t) :
          IF response.ok
          THEN /\ dh' = [dh EXCEPT ![t] = describe_history(TableInfo(t), response.events)]
               /\ scan_pc' = [scan_pc EXCEPT ![t] = "history"]
               /\ UNCHANGED << dd, caught, mapped_pd_dfs >>
          ELSE /\ caught' = [caught EXCEPT
                                ![t] = Append(@, [at |-> "history", message |-> response.error])]
               /\ mapped_pd_dfs' = [mapped_pd_dfs EXCEPT
                                       ![t] = ErrorRecord(TableInfo(t), response.error)]
               /\ scan_pc' = [scan_pc EXCEPT ![t] = "done"]
               /\ dd' = [dd EXCEPT ![t] = NoFrame]
               /\ UNCHANGED dh
    /\ UNCHANGED << tables, engine_vars >>

\* Then _process_describe_history folds the two frames, with a numbering
\* Spark may give the events, and scan returns.
ScanProcess(t) ==
    /\ t \in tables
    /\ scan_pc[t] = "history"
    /\ \E numbering \in row_number(operation_rows(dh[t])) :
          mapped_pd_dfs' = [mapped_pd_dfs EXCEPT
                               ![t] = _process_describe_history(dd[t], dh[t], numbering)]
    /\ scan_pc' = [scan_pc EXCEPT ![t] = "done"]
    /\ dd' = [dd EXCEPT ![t] = NoFrame]
    /\ dh' = [dh EXCEPT ![t] = NoFrame]
    /\ UNCHANGED << tables, history_calls, caught, engine_vars >>

\* The frames of the tables of a batch, in the order of the table names.
BatchFrames(batch, frames) ==
    (IF "t1" \in batch THEN << frames["t1"] >> ELSE << >>)
    \o (IF "t2" \in batch THEN << frames["t2"] >> ELSE << >>)

\* DeltaHousekeepingActions.__init__ over the results of the scans.
NewEngine ==
    /\ ~engine
    /\ \A t \in tables : scan_pc[t] = "done"
    /\ engine' = TRUE
    /\ stats' = concat(BatchFrames(tables, mapped_pd_dfs))
    /\ UNCHANGED << scan_vars, cfg, pc, calls, outcome, out >>

\* generate_recommendations is entered: by apply or display, by _explain, or
\* by the user.
GenerateRecommendations ==
    /\ engine /\ pc = 0 /\ calls = 0
    /\ pc' = 1
    /\ calls' = calls + 1
    /\ outcome' = "none"
    /\ UNCHANGED << scan_vars, engine, cfg, stats, out >>

\* generate_recommendations is entered again on the same object.
GenerateRecommendationsAgain ==
    /\ engine /\ pc = 0 /\ calls >= 1 /\ calls < MaxCalls
    /\ pc' = 1
    /\ calls' = calls + 1
    /\ outcome' = "none"
    /\ UNCHANGED << scan_vars, engine, cfg, stats, out >>

\* One rule of generate_recommendations ended as result says: _stats is
\* reassigned and the next rule follows, or the exception ends the call.
Step(result) ==
    /\ IF result.raised
       THEN /\ pc' = 0
            /\ outcome' = "raised"
            /\ UNCHANGED stats
       ELSE /\ pc' = pc + 1
            /\ stats' = result.stats
            /\ UNCHANGED outcome
    /\ UNCHANGED << scan_vars, engine, cfg, calls, out >>

NeedOptimize == pc = 1 /\ Step(_need_optimize(stats, cfg))

NeverVacuumed == pc = 2 /\ Step(_never_vacuumed(stats, cfg))

\* datetime.now gives a time of Clock, whatever it gave before.
NotOptimizedLastDays ==
    pc = 3 /\ \E now \in Clock : Step(_not_optimized_last_days(stats, cfg, now))

NotVacuumedLastDays ==
    pc = 4 /\ \E now \in Clock : Step(_not_vacuumed_last_days(stats, cfg, now))

OptimizedTooFrequently == pc = 5 /\ Step(_optimized_too_frequently(stats, cfg))

VacuumedTooFrequently == pc = 6 /\ Step(_vacuumed_too_frequently(stats, cfg))

OptimizeNotNeeded == pc = 7 /\ Step(_optimize_not_needed(stats, cfg))

AnalyzeTheseTables == pc = 8 /\ Step(_analyze_these_tables(stats, cfg))

ZorderNotEffective == pc = 9 /\ Step(_zorder_not_effective(stats, cfg))

\* generate_recommendations returns the copy of _stats to apply or to the user.
Return ==
    /\ pc = 10
    /\ pc' = 0
    /\ outcome' = "returned"
    /\ UNCHANGED << scan_vars, engine, cfg, stats, calls, out >>

\* generate_recommendations returns the copy of _stats to _explain, which
\* builds its list from it.
ExplainReturn ==
    /\ pc = 10
    /\ pc' = 0
    /\ outcome' = "returned"
    /\ out' = _explain(stats)
    /\ UNCHANGED << scan_vars, engine, cfg, stats, calls >>

Next ==
    \/ \E t \in TableNames : ScanDetail(t)
    \/ \E t \in TableNames : ScanHistory(t)
    \/ NewEngine
    \/ GenerateRecommendations
    \/ NeedOptimize
    \/ NeverVacuumed
    \/ NotOptimizedLastDays
    \/ NotVacuumedLastDays
    \/ OptimizedTooFrequently
    \/ VacuumedTooFrequently
    \/ OptimizeNotNeeded
    \/ AnalyzeTheseTables
    \/ ZorderNotEffective
    \/ Return
    \/ ExplainReturn

\* The scans of a batch, an engine over their results and one call of
\* generate_recommendations.
Spec == Init /\ [][Next]_vars

\* A batch of one table, and generate_recommendations called up to MaxCalls
\* times on the engine.
InitAgain == Init /\ Cardinality(tables) = 1

NextAgain == Next \/ GenerateRecommendationsAgain

SpecAgain == InitAgain /\ [][NextAgain]_vars

\* A batch of one table, its scan step by step, and one call of
\* generate_recommendations.
InitSingle == Init /\ Cardinality(tables) = 1

NextSingle ==
    \/ \E t \in TableNames : ScanDetail(t)
    \/ \E t \in TableNames : ScanStatement(t)
    \/ \E t \in TableNames : ScanProcess(t)
    \/ NewEngine
    \/ GenerateRecommendations
    \/ NeedOptimize
    \/ NeverVacuumed
    \/ NotOptimizedLastDays
    \/ NotVacuumedLastDays
    \/ OptimizedTooFrequently
    \/ VacuumedTooFrequently
    \/ OptimizeNotNeeded
    \/ AnalyzeTheseTables
    \/ ZorderNotEffective
    \/ Return
    \/ ExplainReturn

SpecSingle == InitSingle /\ [][NextSingle]_vars

\* ------------------------------------------------------------------ claims
FLAGS == {"rec_optimize", "rec_vacuum", "rec_misc"}

SummaryColumns ==
    {"number_of_files", "bytes", "max_optimize_timestamp", "2nd_optimize_timestamp",
     "max_vacuum_timestamp", "2nd_vacuum_timestamp", "min_file_size", "p50_file_size",
     "max_file_size", "z_order_by"}

HistorySummaryColumns == SummaryColumns \ {"number_of_files", "bytes"}

Identity(t) ==
    [catalog |-> TableInfo(t).catalog, database |-> TableInfo(t).schema,
     tableName |-> TableInfo(t).table]

\* A call of generate_recommendations has returned and none is in progress.
Evaluated == engine /\ pc = 0 /\ outcome = "returned"

C2_OneRowPerTable ==
    /\ \A t \in TableNames :
          scan_pc[t] = "done" =>
              /\ Len(mapped_pd_dfs[t].rows) = 1
              /\ KeyOf(mapped_pd_dfs[t].rows[1]) = Identity(t)
    /\ engine =>
          /\ Len(stats.rows) = Cardinality(tables)
          /\ \A i, j \in Positions(stats) :
                 KeyOf(stats.rows[i]) = KeyOf(stats.rows[j]) => i = j

\* C2 witness: a scan of a table with two OPTIMIZE events of the same
\* timestamp has ended, and the engine holds a batch of two tables.
C2_Witness ==
    /\ \E t \in TableNames :
          /\ scan_pc[t] = "done"
          /\ Len(mapped_pd_dfs[t].rows) >= 1
          /\ notnull(mapped_pd_dfs[t].rows[1], "2nd_optimize_timestamp")
          /\ mapped_pd_dfs[t].rows[1]["2nd_optimize_timestamp"]
                = mapped_pd_dfs[t].rows[1].max_optimize_timestamp
    /\ engine /\ Cardinality(tables) = 2

\* C3: after generate_recommendations, every row with no OPTIMIZE timestamp
\* and bytes above min_table_size_optimize has rec_optimize true and the
\* legend of the tables not optimized in rec_optimize_reason.
C3_NeedOptimize ==
    Evaluated =>
        \A i \in Positions(stats) :
            LET r == stats.rows[i]
            IN  (/\ isnull(r, "max_optimize_timestamp")
                 /\ notnull(r, "bytes")
                 /\ r.bytes > cfg.min_table_size_optimize)
                => /\ r.rec_optimize
                   /\ contains(r.rec_optimize_reason, tables_not_optimized_legend)

\* C3 witness: an evaluated frame with such a row.
C3_Witness ==
    /\ Evaluated
    /\ \E i \in Positions(stats) :
          /\ isnull(stats.rows[i], "max_optimize_timestamp")
          /\ notnull(stats.rows[i], "bytes")
          /\ stats.rows[i].bytes > cfg.min_table_size_optimize

\* C4: after generate_recommendations, every row with an OPTIMIZE timestamp
\* and bytes below min_table_size_optimize has rec_optimize true and the
\* legend of the tables too small to be optimized in rec_optimize_reason.
C4_OptimizeNotNeeded ==
    Evaluated =>
        \A i \in Positions(stats) :
            LET r == stats.rows[i]
            IN  (/\ notnull(r, "max_optimize_timestamp")
                 /\ notnull(r, "bytes")
                 /\ r.bytes < cfg.min_table_size_optimize)
                => /\ r.rec_optimize
                   /\ contains(r.rec_optimize_reason, tables_do_not_need_optimize)

\* C4 witness: an evaluated frame with such a row.
C4_Witness ==
    /\ Evaluated
    /\ \E i \in Positions(stats) :
          /\ notnull(stats.rows[i], "max_optimize_timestamp")
          /\ notnull(stats.rows[i], "bytes")
          /\ stats.rows[i].bytes < cfg.min_table_size_optimize

\* C5: after generate_recommendations, a row with both OPTIMIZE timestamps
\* whose difference is less than max_optimize_freq whole days has rec_optimize
\* true and the legend of the tables optimized too often; a row whose
\* difference is max_optimize_freq whole days or more has not that legend.
C5_OptimizedTooFrequently ==
    Evaluated =>
        \A i \in Positions(stats) :
            LET r == stats.rows[i]
            IN  (notnull(r, "max_optimize_timestamp") /\ notnull(r, "2nd_optimize_timestamp"))
                => IF r.max_optimize_timestamp - r["2nd_optimize_timestamp"]
                        < cfg.max_optimize_freq * TicksPerDay
                   THEN /\ r.rec_optimize
                        /\ contains(r.rec_optimize_reason, tables_optimized_too_freq)
                   ELSE ~contains(r.rec_optimize_reason, tables_optimized_too_freq)

\* C5 witness: an evaluated frame with a row whose OPTIMIZE timestamps are
\* exactly max_optimize_freq days apart, and a row whose are less than that.
C5_Witness ==
    /\ Evaluated
    /\ \E i \in Positions(stats) :
          /\ notnull(stats.rows[i], "2nd_optimize_timestamp")
          /\ stats.rows[i].max_optimize_timestamp - stats.rows[i]["2nd_optimize_timestamp"]
                = cfg.max_optimize_freq * TicksPerDay
    /\ \E i \in Positions(stats) :
          /\ notnull(stats.rows[i], "2nd_optimize_timestamp")
          /\ stats.rows[i].max_optimize_timestamp - stats.rows[i]["2nd_optimize_timestamp"]
                < cfg.max_optimize_freq * TicksPerDay

\* C7: in every step, a flag of a table that is true stays true and a legend
\* in a reason of a table stays in it.
C7_Monotone ==
    [][engine =>
          \A i \in Positions(stats) :
              \E j \in Positions(stats') :
                  /\ KeyOf(stats'.rows[j]) = KeyOf(stats.rows[i])
                  /\ \A f \in FLAGS \cap DOMAIN stats.rows[i] :
                         /\ stats.rows[i][f] => stats'.rows[j][f]
                         /\ \A k \in 1..Len(stats.rows[i][f \o "_reason"]) :
                                contains(stats'.rows[j][f \o "_reason"],
                                         stats.rows[i][f \o "_reason"][k])]_vars

\* C7 witness: rule 1 set rec_optimize for a table and the three later rules
\* of that flag composed with it.
C7_Witness ==
    /\ pc = 8
    /\ \E i \in Positions(stats) :
          /\ stats.rows[i].rec_optimize
          /\ Len(stats.rows[i].rec_optimize_reason) >= 4
          /\ stats.rows[i].rec_optimize_reason[1] = tables_not_optimized_legend

\* The scan of table t ended with a summary of its detail alone: the table
\* has no OPTIMIZE and no VACUUM END event.
NoHistory(t) ==
    /\ scan_pc[t] = "done"
    /\ caught[t] = << >>
    /\ Len(mapped_pd_dfs[t].rows) = 1
    /\ {"number_of_files", "bytes"} \subseteq DOMAIN mapped_pd_dfs[t].rows[1]
    /\ HistorySummaryColumns \cap DOMAIN mapped_pd_dfs[t].rows[1] = {}

\* C6: once generate_recommendations was called and has ended, over any batch
\* with a table that has no OPTIMIZE and no VACUUM END event, the call has
\* returned and the row of that table has rec_vacuum true and the legend of
\* the tables never vacuumed in rec_vacuum_reason.
C6_NoHistoryNeverVacuumed ==
    \A t \in tables :
        (NoHistory(t) /\ engine /\ pc = 0 /\ calls >= 1)
        => /\ outcome = "returned"
           /\ \E i \in Positions(stats) :
                  /\ KeyOf(stats.rows[i]) = Identity(t)
                  /\ "rec_vacuum" \in DOMAIN stats.rows[i]
                  /\ stats.rows[i].rec_vacuum
                  /\ contains(stats.rows[i].rec_vacuum_reason, tables_not_vacuumed_legend)

\* The frames a fresh engine over the scans of batch returns from
\* generate_recommendations, for the times datetime.now may give.
Evaluations(batch) ==
    {generate_recommendations(concat(BatchFrames(batch, mapped_pd_dfs)), cfg, now3, now4) :
        now3 \in Clock, now4 \in Clock}

\* C8: whenever a call of generate_recommendations has returned, the frame of
\* the engine is the one a fresh engine over the same scans returns, for some
\* times of the clock: a call after the first changes no row.
C8_Idempotent ==
    Evaluated =>
        \E e \in Evaluations(tables) : ~e.raised /\ e.stats = stats

Rows(frame) == {frame.rows[i] : i \in 1..Len(frame.rows)}

\* C9: after generate_recommendations over the batch of the two tables, the
\* rows are those of the two tables evaluated each alone, at the same times
\* of the clock.
C9_BatchDistributive ==
    (Evaluated /\ tables = TableNames) =>
        \E now3 \in Clock, now4 \in Clock :
            LET both == generate_recommendations(
                            concat(BatchFrames(TableNames, mapped_pd_dfs)), cfg, now3, now4)
                one == generate_recommendations(
                            concat(BatchFrames({"t1"}, mapped_pd_dfs)), cfg, now3, now4)
                other == generate_recommendations(
                            concat(BatchFrames({"t2"}, mapped_pd_dfs)), cfg, now3, now4)
            IN  /\ ~both.raised /\ both.stats = stats
                /\ ~one.raised
                /\ ~other.raised
                /\ Rows(one.stats) \cup Rows(other.stats) = Rows(stats)

\* The nine legends of the rules, with the flag of each.
RuleLegends ==
    { [legend |-> tables_not_optimized_legend, flag |-> "rec_optimize"],
      [legend |-> tables_not_optimized_last_days, flag |-> "rec_optimize"],
      [legend |-> tables_optimized_too_freq, flag |-> "rec_optimize"],
      [legend |-> tables_do_not_need_optimize, flag |-> "rec_optimize"],
      [legend |-> tables_not_vacuumed_legend, flag |-> "rec_vacuum"],
      [legend |-> tables_not_vacuumed_last_days, flag |-> "rec_vacuum"],
      [legend |-> tables_vacuumed_too_freq, flag |-> "rec_vacuum"],
      [legend |-> tables_to_analyze, flag |-> "rec_misc"],
      [legend |-> tables_zorder_not_effective, flag |-> "rec_misc"] }

\* C10: the list _explain returned has, for each of the nine legends, an
\* entry of that legend whose rows are the rows of the frame with the legend
\* in the reason of its flag.
C10_ExplainNineLegends ==
    out # << >> =>
        \A l \in RuleLegends :
            \E k \in 1..Len(out) :
                /\ out[k].legend = l.legend
                /\ Rows([rows |-> out[k].rows])
                      = {r \in Rows(stats) : contains(r[l.flag \o "_reason"], l.legend)}

\* The flag and reason columns of the recommendations.
FlagColumns == FLAGS \cup {f \o "_reason" : f \in FLAGS}

\* The flag the k-th rule of generate_recommendations writes.
RuleFlag(k) ==
    CASE k \in {1, 3, 5, 7} -> "rec_optimize"
      [] k \in {2, 4, 6} -> "rec_vacuum"
      [] k \in {8, 9} -> "rec_misc"

\* The scanned cells of a row: all but the flags and the reasons.
Scanned(row) == Project(row, (DOMAIN row) \ FlagColumns)

\* C11: every rule that returns leaves one row per table of the same
\* identities, changes no scanned cell of any row and leaves the two pairs of
\* flag and reason it does not write as they were; and whenever the engine
\* holds a frame, its scanned columns and the scanned cells of its rows are
\* those of the scans of the batch, one row per table.
C11_Frame ==
    [][/\ (engine /\ pc \in 1..9 /\ pc' = pc + 1) =>
             /\ Len(stats'.rows) = Len(stats.rows)
             /\ \A i \in Positions(stats) :
                    \E j \in 1..Len(stats'.rows) :
                        /\ KeyOf(stats'.rows[j]) = KeyOf(stats.rows[i])
                        /\ Scanned(stats'.rows[j]) = Scanned(stats.rows[i])
                        /\ \A f \in FLAGS \ {RuleFlag(pc)} :
                               Project(stats'.rows[j], {f, f \o "_reason"})
                                 = Project(stats.rows[i], {f, f \o "_reason"})
       /\ engine' =>
             /\ Len(stats'.rows) = Cardinality(tables')
             /\ \A i, j \in 1..Len(stats'.rows) :
                    KeyOf(stats'.rows[i]) = KeyOf(stats'.rows[j]) => i = j
             /\ stats'.columns \ FlagColumns
                   = concat(BatchFrames(tables', mapped_pd_dfs')).columns
             /\ {Scanned(r) : r \in Rows(stats')}
                   = Rows(concat(BatchFrames(tables', mapped_pd_dfs')))]_vars

\* C11 witness: the nine rules were applied to a batch of two tables, and
\* rules of the three flags fired for one of them.
C11_Witness ==
    /\ pc = 10
    /\ Cardinality(tables) = 2
    /\ \E i \in Positions(stats) :
          stats.rows[i].rec_optimize /\ stats.rows[i].rec_vacuum /\ stats.rows[i].rec_misc

\* The legends of the rules of a flag, in the order generate_recommendations
\* applies the rules.
LegendsInOrder(f) ==
    CASE f = "rec_optimize" ->
           << tables_not_optimized_legend, tables_not_optimized_last_days,
              tables_optimized_too_freq, tables_do_not_need_optimize >>
      [] f = "rec_vacuum" ->
           << tables_not_vacuumed_legend, tables_not_vacuumed_last_days,
              tables_vacuumed_too_freq >>
      [] f = "rec_misc" -> << tables_to_analyze, tables_zorder_not_effective >>

\* The legends joined with " | ": nothing before the first, nothing after the
\* last.
RECURSIVE Joined(_)
Joined(legends) ==
    IF Len(legends) <= 1
    THEN legends
    ELSE << Head(legends), " | " >> \o Joined(Tail(legends))

\* C12: after generate_recommendations, each reason of each row is the
\* legends in it, in the order of their rules, joined with " | " and nothing
\* else, and the reason of a flag that is false is empty.
C12_ReasonIsJoinedLegends ==
    Evaluated =>
        \A i \in Positions(stats) :
            \A f \in FLAGS :
                LET reason == stats.rows[i][f \o "_reason"]
                IN  /\ reason = Joined(SelectSeq(LegendsInOrder(f),
                                           LAMBDA l : contains(reason, l)))
                    /\ ~stats.rows[i][f] => reason = << >>

\* The table of the rules: rule k selects row r and fires for it, now3 and
\* now4 being the times rules 3 and 4 take as now.
Fires(k, r, config, now3, now4) ==
    CASE k = 1 -> /\ isnull(r, "max_optimize_timestamp") /\ notnull(r, "bytes")
                  /\ r.bytes > config.min_table_size_optimize
      [] k = 2 -> isnull(r, "max_vacuum_timestamp")
      [] k = 3 -> /\ notnull(r, "max_optimize_timestamp")
                  /\ (now3 - r.max_optimize_timestamp) \div TicksPerDay
                        > config.min_days_not_optimized
      [] k = 4 -> /\ notnull(r, "max_vacuum_timestamp")
                  /\ (now4 - r.max_vacuum_timestamp) \div TicksPerDay
                        > config.min_days_not_vacuumed
      [] k = 5 -> /\ notnull(r, "max_optimize_timestamp")
                  /\ notnull(r, "2nd_optimize_timestamp")
                  /\ (r.max_optimize_timestamp - r["2nd_optimize_timestamp"]) \div TicksPerDay
                        < config.max_optimize_freq
      [] k = 6 -> /\ notnull(r, "max_vacuum_timestamp")
                  /\ notnull(r, "2nd_vacuum_timestamp")
                  /\ (r.max_vacuum_timestamp - r["2nd_vacuum_timestamp"]) \div TicksPerDay
                        < config.max_vacuum_freq
      [] k = 7 -> /\ notnull(r, "max_optimize_timestamp") /\ notnull(r, "bytes")
                  /\ r.bytes < config.min_table_size_optimize
      [] k = 8 -> /\ notnull(r, "max_optimize_timestamp") /\ notnull(r, "p50_file_size")
                  /\ r.number_of_files > 1
                  /\ r.p50_file_size < config.small_file_threshold
      [] k = 9 -> /\ notnull(r, "max_optimize_timestamp") /\ notnull(r, "p50_file_size")
                  /\ r.z_order_by # << >>
                  /\ r.number_of_files < config.min_number_of_files_for_zorder

\* The nine rules applied in the order given, the first exception ending
\* the run: generate_recommendations with its calls reordered.
RECURSIVE RulesIn(_, _, _, _, _, _)
RulesIn(order, n, frame, config, now3, now4) ==
    IF n = 0
    THEN Returned(frame)
    ELSE Then(RulesIn(order, n - 1, frame, config, now3, now4), order[n], config, now3, now4)

\* The orders compared with that of the code: the reverse of it, and each
\* rule moved to the front of the others.
Orders ==
    {[n \in 1..9 |-> 10 - n]}
    \cup {[n \in 1..9 |-> IF n = 1 THEN k ELSE IF n <= k THEN n - 1 ELSE n] : k \in 1..9}

\* The flags of the rows of a frame, by the key of the row.
FlagsOf(frame) == {[key |-> KeyOf(r), flags |-> Project(r, FLAGS)] : r \in Rows(frame)}

\* C13: after generate_recommendations, for some times of the clock read by
\* rules 3 and 4, each flag of each row is true exactly when a rule of that
\* flag fires for the row by the table of the rules, and the rules applied
\* in any of the other orders give every row the same flags.
C13_FlagsEqualRuleTable ==
    Evaluated =>
        \E now3 \in Clock, now4 \in Clock :
            /\ \A i \in Positions(stats) :
                   \A f \in FLAGS :
                       stats.rows[i][f]
                         <=> \E k \in 1..9 : /\ RuleFlag(k) = f
                                              /\ Fires(k, stats.rows[i], cfg, now3, now4)
            /\ \A order \in Orders :
                   LET e == RulesIn(order, 9, concat(BatchFrames(tables, mapped_pd_dfs)),
                                    cfg, now3, now4)
                   IN  ~e.raised /\ FlagsOf(e.stats) = FlagsOf(stats)

\* C13 witness: an evaluated row for which no rule of rec_optimize fired,
\* the rule of the tables not vacuumed for days did and, of the rules of
\* rec_misc, that of ZORDER did and that of the small files did not.
C13_Witness ==
    /\ Evaluated
    /\ \E i \in Positions(stats) :
          /\ ~stats.rows[i].rec_optimize
          /\ notnull(stats.rows[i], "max_optimize_timestamp")
          /\ contains(stats.rows[i].rec_vacuum_reason, tables_not_vacuumed_last_days)
          /\ stats.rows[i].rec_misc
          /\ ~contains(stats.rows[i].rec_misc_reason, tables_to_analyze)
          /\ contains(stats.rows[i].rec_misc_reason, tables_zorder_not_effective)

\* The events of an operation in the frame of the history statement.
EventsOf(frame, operation) == SelectSeq(frame.rows, LAMBDA e : e.operation = operation)

\* The summary row has, for the events of one operation, the greatest
\* timestamp in the column max and the next in descending order in the column
\* second, null when there is one event only.
LatestTwo(events, row, max, second) ==
    events # << >> =>
        /\ notnull(row, max)
        /\ \E i \in 1..Len(events) :
               /\ events[i].timestamp = row[max]
               /\ \A j \in 1..Len(events) : events[j].timestamp <= row[max]
               /\ IF Len(events) = 1
                  THEN isnull(row, second)
                  ELSE /\ notnull(row, second)
                       /\ row[second] <= row[max]
                       /\ \E j \in (1..Len(events)) \ {i} :
                              /\ events[j].timestamp = row[second]
                              /\ \A k \in (1..Len(events)) \ {i, j} :
                                     events[k].timestamp <= row[second]

MetricColumns == {"min_file_size", "p50_file_size", "max_file_size", "z_order_by"}

\* C14: when _process_describe_history has folded the history of a table,
\* the row has the greatest and the next timestamp of its OPTIMIZE events and
\* of its VACUUM END events, the file sizes and the ZORDER keys of an OPTIMIZE
\* event of the greatest timestamp, and none of these four without OPTIMIZE
\* event.
C14_LatestEvents ==
    [][\A t \in TableNames :
          (scan_pc[t] = "history" /\ scan_pc'[t] = "done") =>
              LET row == mapped_pd_dfs'[t].rows[1]
                  optimize == EventsOf(dh[t], "OPTIMIZE")
                  vacuum == EventsOf(dh[t], "VACUUM END")
              IN  /\ Len(mapped_pd_dfs'[t].rows) = 1
                  /\ LatestTwo(optimize, row, "max_optimize_timestamp", "2nd_optimize_timestamp")
                  /\ LatestTwo(vacuum, row, "max_vacuum_timestamp", "2nd_vacuum_timestamp")
                  /\ optimize # << >> =>
                         \E i \in 1..Len(optimize) :
                             /\ optimize[i].timestamp = row.max_optimize_timestamp
                             /\ Project(row, MetricColumns) = Project(optimize[i], MetricColumns)
                             /\ MetricColumns \subseteq DOMAIN row
                  /\ optimize = << >> => MetricColumns \cap DOMAIN row = {}]_vars

\* C14 witness: the scan of a table with two OPTIMIZE events of different
\* times and different file sizes has returned its row.
C14_Witness ==
    \E t \in TableNames :
        /\ scan_pc[t] = "done"
        /\ Len(mapped_pd_dfs[t].rows) = 1
        /\ notnull(mapped_pd_dfs[t].rows[1], "2nd_optimize_timestamp")
        /\ mapped_pd_dfs[t].rows[1]["2nd_optimize_timestamp"]
              < mapped_pd_dfs[t].rows[1].max_optimize_timestamp

\* What scan can return for a table scanned alone: the error record of either
\* failure, or the fold of a detail and a history of the table.
Alone ==
    [t \in TableNames |->
        {ErrorRecord(TableInfo(t), error) : error \in DetailErrors \cup HistoryErrors}
        \cup UNION {
              LET describe_history_df == describe_history(TableInfo(t), h.events)
              IN  {_process_describe_history(get_describe_detail(d), describe_history_df, n) :
                      n \in row_number(operation_rows(describe_history_df))} :
              d \in {r \in DetailResponses(t) : r.ok},
              h \in {r \in HistoryResponses(t) : r.ok}}]

\* The orders in which the scans of a batch may hand in their frames.
Orderings(batch) ==
    {order \in [1..Cardinality(batch) -> batch] :
        \A i, j \in 1..Cardinality(batch) : order[i] = order[j] => i = j}

=============================================================================
